---- MODULE Spec2Model ----
(***************************************************************************)
(* Model of task_orchestrator: the two dispatch/collect strategies of      *)
(* TaskOrchestrator (src/src/orchestrator.rs), the per-task wrapper        *)
(* execute_single_task, the Task Executor TaskBlueprint::execute           *)
(* (src/src/task_blueprint.rs) and the aggregator write_results_to_csv     *)
(* with the projection TaskOutput::from (src/src/task.rs).                 *)
(***************************************************************************)
EXTENDS Integers, Sequences, FiniteSets, TLC

\* ------------------------------------------------------------------ bounds
\* Longest input list (Vec<TaskInput>) explored.
MaxTasks == 3

\* Buffer of the completion queue.  orchestrator.rs:16 passes 1000 to
\* mpsc::channel; the model scales the buffer down so that a full queue
\* (producers waiting in send) is reached with MaxTasks units.
Capacity == 2

\* Longest list of TaskResults handed directly to write_results_to_csv.
MaxResults == 3

\* Task count above which main takes the streaming strategy.  main.rs:21
\* compares with 1000; the model scales the threshold down so that inputs of
\* up to MaxTasks rows reach both branches.
Threshold == 2

\* ------------------------------------------------------------- data model
\* task_id values of the inputs (u64 in task.rs:8).
TaskIds == {101, 201}

\* Failure description of the network-backed executor: a representative of
\* the messages of fetch_data (task_blueprint.rs:14-32), here the one built
\* at task_blueprint.rs:22-25.
HttpFailure == "HTTP request failed with status: 500 Internal Server Error"

\* Failure descriptions e.to_string(): that of fetch_data and the message of
\* a failing stub executor.
ErrorDescriptions == {"boom", HttpFailure}

\* enum TaskStatus (task.rs:13-18)
TaskStatus == {"Pending", "Running", "Completed", "Failed"}

\* Option<String>: None is <<>>, Some(s) is <<s>>.
None == <<>>

Some(s) == <<s>>

OptionString == {None} \cup {Some(s) : s \in ErrorDescriptions}

\* struct TaskResult (task.rs:21-25)
TaskResult == [task_id : TaskIds, status : TaskStatus, error_info : OptionString]

\* Result<()> of TaskBlueprint::execute: Ok(()) or Err(e), e.to_string() = msg.
Ok == [ok |-> TRUE, msg |-> ""]

Err(m) == [ok |-> FALSE, msg |-> m]

Outcomes == {Ok} \cup {Err(m) : m \in ErrorDescriptions}

\* A value that is no TaskResult: a local that is not initialised yet or
\* whose value has been moved out.
Moved == [task_id |-> 0]

\* No stub installed: the Task Executor is the network-backed TaskBlueprint,
\* whose outcome is not determined by task_id.
NoStub == [installed |-> FALSE, outcome |-> [id \in TaskIds |-> Ok]]

\* Deterministic stub executors: the outcome is a function of task_id only.
Stubs == {[installed |-> TRUE, outcome |-> f] : f \in [TaskIds -> Outcomes]}

\* The stubs that treat every task alike: always succeed, always fail "boom".
AlwaysOk == [installed |-> TRUE, outcome |-> [id \in TaskIds |-> Ok]]

AlwaysBoom == [installed |-> TRUE, outcome |-> [id \in TaskIds |-> Err("boom")]]

\* No earlier run recorded.
NoPrior == [called |-> FALSE, results |-> <<>>]

\* No input source: the engine or the aggregator is called directly.
NoInput == [kind |-> "none", rows |-> <<>>]

VARIABLES
    tasks,      \* the Vec<TaskInput> handed to the engine, as task_id values
    strategy,   \* "bounded" (execute_tasks), "streaming" (execute_tasks_streaming), "direct" (no engine call)
    stub,       \* NoStub, or a deterministic stub executor of Stubs
    pc,         \* position of the calling task
    idx,        \* position of the for-loops over tasks / handles
    unit,       \* per submission: position and local `result` of its unit / future
    tx,         \* TRUE while the original sender `tx` is alive
    rx,         \* TRUE while the receiver `rx` is alive
    queue,      \* contents of the mpsc channel, oldest first
    results,    \* the Vec<TaskResult> being collected / returned
    written,    \* the TaskOutput records serialized by write_results_to_csv, in order
    output,     \* the CSV text returned by write_results_to_csv, as lines
    prior,      \* results of an earlier call on the same input (strategy comparison)
    calls,      \* history: per submission, the outcomes the Task Executor returned for it
    enqueued,   \* history: every TaskResult a send put on the channel, in order of arrival
    input       \* the input source main reads: readable or not, and its data rows

vars == <<tasks, strategy, stub, pc, idx, unit, tx, rx, queue, results, written, output, prior, calls, enqueued, input>>

N == Len(tasks)

Units == 1..N

RECURSIVE SeqsUpTo(_, _)
\* All sequences over S of length at most n.
SeqsUpTo(S, n) ==
    IF n = 0 THEN {<<>>}
    ELSE LET shorter == SeqsUpTo(S, n - 1)
         IN  shorter \cup {Append(s, x) : s \in {t \in shorter : Len(t) = n - 1}, x \in S}

\* ----------------------------------------------------------- Task Executor
\* TaskBlueprint::execute(task_id) (task_blueprint.rs:7-12): fetch_data fails
\* and `?` returns its error, or the three steps pass and the call returns
\* Ok(()).  With a stub installed the outcome is the stub's value for task_id.
TaskBlueprintExecute(task_id) ==
    IF stub.installed THEN {stub.outcome[task_id]} ELSE {Ok, Err(HttpFailure)}

\* ------------------------------------------------- execute_single_task
\* Variant of NewResult: the result starts in status Pending.
NewResultPending(task_id) ==
    [task_id |-> task_id, status |-> "Pending", error_info |-> None]

\* orchestrator.rs:61-65: the local `result` before the executor is awaited.
NewResult(task_id) ==
    [task_id |-> task_id, status |-> "Running", error_info |-> None]

\* Variant of MatchOutcome: the Err arm sets the status and forgets the
\* description.
MatchOutcomeNoInfo(result, outcome) ==
    IF outcome.ok
    THEN [result EXCEPT !.status = "Completed"]
    ELSE [result EXCEPT !.status = "Failed"]

\* Variant of MatchOutcome: the Err arm records the description and forgets
\* the status, which stays Running.
MatchOutcomeKeepsRunning(result, outcome) ==
    IF outcome.ok
    THEN [result EXCEPT !.status = "Completed"]
    ELSE [result EXCEPT !.error_info = Some(outcome.msg)]

\* orchestrator.rs:67-73: the match on the executor's outcome.
MatchOutcome(result, outcome) ==
    IF outcome.ok
    THEN [result EXCEPT !.status = "Completed"]
    ELSE [result EXCEPT !.status = "Failed", !.error_info = Some(outcome.msg)]

\* --------------------------------------------------------------- Init
InitUnit == [pc |-> "none", result |-> Moved]

InitEngine ==
    /\ idx = 1
    /\ unit = [i \in Units |-> InitUnit]
    /\ tx = (strategy = "bounded")
    /\ rx = (strategy = "bounded")
    /\ queue = <<>>
    /\ results = <<>>
    /\ written = <<>>
    /\ output = <<>>
    /\ calls = [i \in Units |-> <<>>]
    /\ enqueued = <<>>

Init ==
    /\ tasks \in SeqsUpTo(TaskIds, MaxTasks)
    /\ strategy \in {"bounded", "streaming"}
    /\ stub \in {NoStub, AlwaysOk, AlwaysBoom}
    /\ prior = NoPrior
    /\ input = NoInput
    /\ pc = IF strategy = "bounded" THEN "spawn" ELSE "push"
    /\ InitEngine

\* ------------------------------------------ execute_tasks (bounded queue)
\* orchestrator.rs:20-27, one iteration: clone the sender and spawn the unit.
Spawn ==
    /\ pc = "spawn"
    /\ idx <= N
    /\ unit' = [unit EXCEPT ![idx] = [pc |-> "spawned", result |-> Moved]]
    /\ idx' = idx + 1
    /\ UNCHANGED <<tasks, strategy, stub, pc, tx, rx, queue, results, written, output, prior, calls, enqueued, input>>

\* Variant of DropTx: the collector starts with the original sender alive.
DropTxKeepsSender ==
    /\ pc = "spawn"
    /\ idx > N
    /\ pc' = "collect"
    /\ UNCHANGED <<tasks, strategy, stub, idx, unit, tx, rx, queue, results, written, output, prior, calls, enqueued, input>>

\* orchestrator.rs:30: the loop is over, drop(tx).
DropTx ==
    /\ pc = "spawn"
    /\ idx > N
    /\ tx' = FALSE
    /\ pc' = "collect"
    /\ UNCHANGED <<tasks, strategy, stub, idx, unit, rx, queue, results, written, output, prior, calls, enqueued, input>>

\* A spawned unit holds its clone of the sender until its block ends.
HoldsSender(i) == unit[i].pc \in {"spawned", "executing", "sending", "sent"}

\* Variant of SendersAlive: only the original sender keeps the channel open.
SendersAliveOriginalOnly == tx

\* The channel is closed for the receiver when no sender is left.
SendersAlive == tx \/ \E i \in Units : HoldsSender(i)

\* Spawned unit, first poll: orchestrator.rs:23 enters execute_single_task,
\* which builds `result` (61-65) and awaits the executor (67).
UnitStart(i) ==
    /\ strategy = "bounded"
    /\ unit[i].pc = "spawned"
    /\ unit' = [unit EXCEPT ![i] = [pc |-> "executing", result |-> NewResult(tasks[i])]]
    /\ UNCHANGED <<tasks, strategy, stub, pc, idx, tx, rx, queue, results, written, output, prior, calls, enqueued, input>>

\* Variant of UnitExecuted: the unit propagates the executor's error (as with
\* `?`) and ends without sending anything.
UnitExecutedPropagates(i) ==
    /\ strategy = "bounded"
    /\ unit[i].pc = "executing"
    /\ \E outcome \in TaskBlueprintExecute(tasks[i]) :
          /\ unit' = [unit EXCEPT ![i] =
                IF outcome.ok
                THEN [pc |-> "sending", result |-> MatchOutcome(unit[i].result, outcome)]
                ELSE [pc |-> "sent", result |-> Moved]]
          /\ calls' = [calls EXCEPT ![i] = Append(@, outcome)]
    /\ UNCHANGED <<tasks, strategy, stub, pc, idx, tx, rx, queue, results, written, output, prior, enqueued, input>>

\* Variant of UnitExecuted: after a first failure the wrapper invokes the
\* executor once more before it settles the result.
UnitExecutedRetries(i) ==
    /\ strategy = "bounded"
    /\ unit[i].pc = "executing"
    /\ \E outcome \in TaskBlueprintExecute(tasks[i]) :
          /\ unit' = [unit EXCEPT ![i] =
                IF ~outcome.ok /\ calls[i] = <<>>
                THEN unit[i]
                ELSE [pc |-> "sending", result |-> MatchOutcome(unit[i].result, outcome)]]
          /\ calls' = [calls EXCEPT ![i] = Append(@, outcome)]
    /\ UNCHANGED <<tasks, strategy, stub, pc, idx, tx, rx, queue, results, written, output, prior, enqueued, input>>

\* The executor returns; the match (67-73) sets the terminal status and
\* execute_single_task returns `result` (75).
UnitExecuted(i) ==
    /\ strategy = "bounded"
    /\ unit[i].pc = "executing"
    /\ \E outcome \in TaskBlueprintExecute(tasks[i]) :
          /\ unit' = [unit EXCEPT ![i] = [pc |-> "sending",
                                          result |-> MatchOutcome(unit[i].result, outcome)]]
          /\ calls' = [calls EXCEPT ![i] = Append(@, outcome)]
    /\ UNCHANGED <<tasks, strategy, stub, pc, idx, tx, rx, queue, results, written, output, prior, enqueued, input>>

\* Variant of UnitSend: try_send in place of send; on a full queue the call
\* returns an error at once and the result is lost.
UnitSendTry(i) ==
    /\ strategy = "bounded"
    /\ unit[i].pc = "sending"
    /\ IF rx /\ Len(queue) < Capacity
       THEN /\ queue' = Append(queue, unit[i].result)
            /\ enqueued' = Append(enqueued, unit[i].result)
       ELSE UNCHANGED <<queue, enqueued>>
    /\ unit' = [unit EXCEPT ![i] = [pc |-> "sent", result |-> Moved]]
    /\ UNCHANGED <<tasks, strategy, stub, pc, idx, tx, rx, results, written, output, prior, calls, input>>

\* orchestrator.rs:24: tx_clone.send(result).await; the outcome is ignored.
\* With the receiver alive the send waits for a free slot and enqueues; with
\* the receiver gone it returns an error and the result is lost.
UnitSend(i) ==
    /\ strategy = "bounded"
    /\ unit[i].pc = "sending"
    /\ IF rx
       THEN /\ Len(queue) < Capacity
            /\ queue' = Append(queue, unit[i].result)
            /\ enqueued' = Append(enqueued, unit[i].result)
       ELSE UNCHANGED <<queue, enqueued>>
    /\ unit' = [unit EXCEPT ![i] = [pc |-> "sent", result |-> Moved]]
    /\ UNCHANGED <<tasks, strategy, stub, pc, idx, tx, rx, results, written, output, prior, calls, input>>

\* orchestrator.rs:25: the async block ends and its captured tx_clone is dropped.
UnitDropSender(i) ==
    /\ strategy = "bounded"
    /\ unit[i].pc = "sent"
    /\ unit' = [unit EXCEPT ![i].pc = "dropped"]
    /\ UNCHANGED <<tasks, strategy, stub, pc, idx, tx, rx, queue, results, written, output, prior, calls, enqueued, input>>

\* The runtime stores the block's output; the unit's JoinHandle is ready.
UnitFinish(i) ==
    /\ strategy = "bounded"
    /\ unit[i].pc = "dropped"
    /\ unit' = [unit EXCEPT ![i].pc = "finished"]
    /\ UNCHANGED <<tasks, strategy, stub, pc, idx, tx, rx, queue, results, written, output, prior, calls, enqueued, input>>

\* Variant of Recv: the received result is put at the front of the list.
RecvPushesFront ==
    /\ pc = "collect"
    /\ queue # <<>>
    /\ results' = <<Head(queue)>> \o results
    /\ queue' = Tail(queue)
    /\ UNCHANGED <<tasks, strategy, stub, pc, idx, unit, tx, rx, written, output, prior, calls, enqueued, input>>

\* Variant of Recv: the collector clears error_info of what it receives.
RecvClearsInfo ==
    /\ pc = "collect"
    /\ queue # <<>>
    /\ results' = Append(results, [Head(queue) EXCEPT !.error_info = None])
    /\ queue' = Tail(queue)
    /\ UNCHANGED <<tasks, strategy, stub, pc, idx, unit, tx, rx, written, output, prior, calls, enqueued, input>>

\* orchestrator.rs:33-34: rx.recv() yields Some(result); results.push(result).
Recv ==
    /\ pc = "collect"
    /\ queue # <<>>
    /\ results' = Append(results, Head(queue))
    /\ queue' = Tail(queue)
    /\ UNCHANGED <<tasks, strategy, stub, pc, idx, unit, tx, rx, written, output, prior, calls, enqueued, input>>

\* Variant of RecvNone: the loop ends as soon as the queue is found empty
\* (try_recv in place of recv), senders alive or not.
RecvNoneOnEmpty ==
    /\ pc = "collect"
    /\ queue = <<>>
    /\ pc' = "join"
    /\ idx' = 1
    /\ UNCHANGED <<tasks, strategy, stub, unit, tx, rx, queue, results, written, output, prior, calls, enqueued, input>>

\* orchestrator.rs:33: rx.recv() yields None (queue empty, every sender
\* dropped); the while-let loop ends.
RecvNone ==
    /\ pc = "collect"
    /\ queue = <<>>
    /\ ~SendersAlive
    /\ pc' = "join"
    /\ idx' = 1
    /\ UNCHANGED <<tasks, strategy, stub, unit, tx, rx, queue, results, written, output, prior, calls, enqueued, input>>

\* Variant of Join: the handle is dropped (the unit detached), not awaited.
JoinDetached ==
    /\ pc = "join"
    /\ idx <= N
    /\ idx' = idx + 1
    /\ UNCHANGED <<tasks, strategy, stub, pc, unit, tx, rx, queue, results, written, output, prior, calls, enqueued, input>>

\* orchestrator.rs:37-39, one iteration: handle.await resolves when the unit
\* has finished.
Join ==
    /\ pc = "join"
    /\ idx <= N
    /\ unit[idx].pc = "finished"
    /\ idx' = idx + 1
    /\ UNCHANGED <<tasks, strategy, stub, pc, unit, tx, rx, queue, results, written, output, prior, calls, enqueued, input>>

\* orchestrator.rs:41-42: return results; rx goes out of scope.
Return ==
    /\ pc = "join"
    /\ idx > N
    /\ pc' = "returned"
    /\ rx' = FALSE
    /\ UNCHANGED <<tasks, strategy, stub, idx, unit, tx, queue, results, written, output, prior, calls, enqueued, input>>

\* --------------------------- execute_tasks_streaming (unordered pool)
\* orchestrator.rs:48-50, one iteration: the future of execute_single_task is
\* created and pushed; it does not run before the set is polled.
Push ==
    /\ pc = "push"
    /\ idx <= N
    /\ unit' = [unit EXCEPT ![idx] = [pc |-> "pushed", result |-> Moved]]
    /\ idx' = idx + 1
    /\ UNCHANGED <<tasks, strategy, stub, pc, tx, rx, queue, results, written, output, prior, calls, enqueued, input>>

\* orchestrator.rs:52: the loop is over, the collector starts polling.
StartPolling ==
    /\ pc = "push"
    /\ idx > N
    /\ pc' = "poll"
    /\ UNCHANGED <<tasks, strategy, stub, idx, unit, tx, rx, queue, results, written, output, prior, calls, enqueued, input>>

\* Variant of PendingSet: only the members that were polled already count.
PendingSetPolled == {i \in Units : unit[i].pc = "executing"}

\* The members of the FuturesUnordered set that have not been yielded.
PendingSet == {i \in Units : unit[i].pc \in {"pushed", "executing"}}

\* futures.next() polls a member for the first time: execute_single_task
\* builds `result` (61-65) and awaits the executor (67).
FutureStart(i) ==
    /\ pc = "poll"
    /\ unit[i].pc = "pushed"
    /\ unit' = [unit EXCEPT ![i] = [pc |-> "executing", result |-> NewResult(tasks[i])]]
    /\ UNCHANGED <<tasks, strategy, stub, pc, idx, tx, rx, queue, results, written, output, prior, calls, enqueued, input>>

\* futures.next() polls a member whose executor call has returned: the match
\* (67-73) sets the status, the future completes, next() yields
\* Some(result) and the collector pushes it (orchestrator.rs:53-54).
FutureReady(i) ==
    /\ pc = "poll"
    /\ unit[i].pc = "executing"
    /\ \E outcome \in TaskBlueprintExecute(tasks[i]) :
          /\ results' = Append(results, MatchOutcome(unit[i].result, outcome))
          /\ calls' = [calls EXCEPT ![i] = Append(@, outcome)]
    /\ unit' = [unit EXCEPT ![i] = [pc |-> "yielded", result |-> Moved]]
    /\ UNCHANGED <<tasks, strategy, stub, pc, idx, tx, rx, queue, written, output, prior, enqueued, input>>

\* Variant of NextNone: the loop ends when no polled member is in flight,
\* members that were never polled included.
NextNoneIdle ==
    /\ pc = "poll"
    /\ \A i \in Units : unit[i].pc # "executing"
    /\ pc' = "returned"
    /\ UNCHANGED <<tasks, strategy, stub, idx, unit, tx, rx, queue, results, written, output, prior, calls, enqueued, input>>

\* orchestrator.rs:53,57: next() yields None on the empty set; return results.
NextNone ==
    /\ pc = "poll"
    /\ PendingSet = {}
    /\ pc' = "returned"
    /\ UNCHANGED <<tasks, strategy, stub, idx, unit, tx, rx, queue, results, written, output, prior, calls, enqueued, input>>

\* ------------------------------------------------------ Result Aggregator
\* Variant of TaskOutputFrom: final_status is the name of the status as it is.
TaskOutputFromStatusName(result) ==
    [task_id      |-> result.task_id,
     final_status |-> result.status,
     error_info   |-> IF result.error_info = None THEN "" ELSE result.error_info[1]]

\* impl From<TaskResult> for TaskOutput (task.rs:34-50)
TaskOutputFrom(result) ==
    [task_id      |-> result.task_id,
     final_status |-> CASE result.status = "Completed" -> "Completed"
                        [] result.status = "Failed"    -> "Failed"
                        [] OTHER                       -> "Failed",
     error_info   |-> IF result.error_info = None THEN "" ELSE result.error_info[1]]

\* Variant of Insert: the map is keyed by (task_id, status).
InsertByIdAndStatus(map, result) ==
    [k \in DOMAIN map \cup {<<result.task_id, result.status>>} |->
        IF k = <<result.task_id, result.status>> THEN result ELSE map[k]]

\* Variant of Insert: a present key keeps its entry (entry().or_insert()).
InsertKeepsFirst(map, result) ==
    [k \in DOMAIN map \cup {result.task_id} |->
        IF k \in DOMAIN map THEN map[k] ELSE result]

\* Variant of Insert: on a present key the new result takes over the old
\* entry's error_info when it has none of its own.
InsertMergesInfo(map, result) ==
    [k \in DOMAIN map \cup {result.task_id} |->
        IF k # result.task_id THEN map[k]
        ELSE IF k \in DOMAIN map /\ result.error_info = None
             THEN [result EXCEPT !.error_info = map[k].error_info]
             ELSE result]

\* HashMap::insert (task.rs:70): a present key is overwritten.
Insert(map, result) ==
    [k \in DOMAIN map \cup {result.task_id} |->
        IF k = result.task_id THEN result ELSE map[k]]

RECURSIVE InsertAll(_, _)
\* task.rs:66-71: the loop over `results`, first to last, into unique_results.
InsertAll(map, rs) ==
    IF rs = <<>> THEN map ELSE InsertAll(Insert(map, Head(rs)), Tail(rs))

UniqueResults(rs) == InsertAll(<<>>, rs)

\* HashMap::values() (task.rs:75) visits every entry once, in an order the
\* map does not specify: any enumeration of the keys.
ValuesOrders(map) ==
    {o \in [1..Cardinality(DOMAIN map) -> DOMAIN map] :
        \A a, b \in DOMAIN o : a # b => o[a] # o[b]}

\* The header record csv::Writer derives from the fields of TaskOutput
\* (task.rs:28-32); it is written before the first serialized record.
Header == "task_id,final_status,error_info"

\* writer.serialize(output) (task.rs:77): one CSV record of the three fields.
CsvRecord(o) == ToString(o.task_id) \o "," \o o.final_status \o "," \o o.error_info

\* write_results_to_csv (task.rs:65-82), called at main.rs:28.
WriteResults ==
    /\ pc = "returned"
    /\ LET unique_results == UniqueResults(results)
       IN  \E order \in ValuesOrders(unique_results) :
              LET outs == [j \in 1..Len(order) |-> TaskOutputFrom(unique_results[order[j]])]
              IN  /\ written' = outs
                  /\ output' = IF outs = <<>> THEN <<>>
                               ELSE <<Header>> \o [j \in 1..Len(outs) |-> CsvRecord(outs[j])]
    /\ pc' = "written"
    /\ UNCHANGED <<tasks, strategy, stub, idx, unit, tx, rx, queue, results, prior, calls, enqueued, input>>

\* ------------------------------------------------------------ Task Source
\* The data rows an input file may hold, each as its fields: two well-formed
\* rows, a row whose task_id is no number, a row that lacks a field.
RowKinds == {<<"101", "process_data">>, <<"201", "process_data">>,
             <<"abc", "process_data">>, <<"101">>}

\* The input sources: a file that cannot be read, or a file with the header
\* task_id,task_type and up to MaxTasks data rows.
Inputs == {[kind |-> "unreadable", rows |-> <<>>]}
             \cup {[kind |-> "file", rows |-> r] : r \in SeqsUpTo(RowKinds, MaxTasks)}

\* Parsing a field as u64: the values whose decimal text is the field.
ParseU64(field) == {n \in TaskIds : ToString(n) = field}

\* reader.deserialize() for one record (task.rs:57-58): an error when the
\* record has not the header's two fields or task_id does not parse.
Deserialize(row) ==
    IF Len(row) # 2 \/ ParseU64(row[1]) = {}
    THEN [ok |-> FALSE, task_id |-> 0]
    ELSE [ok |-> TRUE, task_id |-> CHOOSE n \in ParseU64(row[1]) : TRUE]

RECURSIVE ReadRowsSkipsMalformed(_, _)
\* Variant of ReadRows: a row that does not deserialize is skipped.
ReadRowsSkipsMalformed(rows, acc) ==
    IF rows = <<>> THEN [ok |-> TRUE, tasks |-> acc]
    ELSE LET task == Deserialize(Head(rows))
         IN  IF ~task.ok THEN ReadRowsSkipsMalformed(Tail(rows), acc)
             ELSE ReadRowsSkipsMalformed(Tail(rows), Append(acc, task.task_id))

RECURSIVE ReadRows(_, _)
\* task.rs:56-62: the loop over the records; `?` returns the first error.
ReadRows(rows, acc) ==
    IF rows = <<>> THEN [ok |-> TRUE, tasks |-> acc]
    ELSE LET task == Deserialize(Head(rows))
         IN  IF ~task.ok THEN [ok |-> FALSE, tasks |-> <<>>]
             ELSE ReadRows(Tail(rows), Append(acc, task.task_id))

\* read_tasks_from_csv (task.rs:52-63): `?` on read_to_string, then the rows.
ReadTasksFromCsv(in) ==
    IF in.kind # "file" THEN [ok |-> FALSE, tasks |-> <<>>] ELSE ReadRows(in.rows, <<>>)

\* ------------------------------------------------------------------- main
\* main.rs:21-26: the strategy main takes for n tasks.
SelectStrategy(n) == IF n > Threshold THEN "streaming" ELSE "bounded"

\* main.rs:18: read_tasks_from_csv fails and `?` ends main with the error.
ReadFails ==
    /\ pc = "read"
    /\ ~ReadTasksFromCsv(input).ok
    /\ pc' = "failed"
    /\ UNCHANGED <<tasks, strategy, stub, idx, unit, tx, rx, queue, results, written, output, prior, calls, enqueued, input>>

\* main.rs:18-26: the tasks are read and handed to the strategy chosen by
\* their number; the engine starts (orchestrator.rs:16-18, 46).
ReadAndDispatch ==
    /\ pc = "read"
    /\ LET read == ReadTasksFromCsv(input)
       IN  /\ read.ok
           /\ tasks' = read.tasks
           /\ strategy' = SelectStrategy(Len(read.tasks))
           /\ unit' = [i \in 1..Len(read.tasks) |-> InitUnit]
           /\ calls' = [i \in 1..Len(read.tasks) |-> <<>>]
    /\ pc' = IF strategy' = "bounded" THEN "spawn" ELSE "push"
    /\ tx' = (strategy' = "bounded")
    /\ rx' = (strategy' = "bounded")
    /\ idx' = 1
    /\ UNCHANGED <<stub, queue, results, written, output, prior, enqueued, input>>

\* ------------------------------------------------------------ specifications
Bounded ==
    \/ Spawn
    \/ DropTx
    \/ \E i \in Units : UnitStart(i)
    \/ \E i \in Units : UnitExecuted(i)
    \/ \E i \in Units : UnitSend(i)
    \/ \E i \in Units : UnitDropSender(i)
    \/ \E i \in Units : UnitFinish(i)
    \/ Recv
    \/ RecvNone
    \/ Join
    \/ Return

Streaming ==
    \/ Push
    \/ StartPolling
    \/ \E i \in Units : FutureStart(i)
    \/ \E i \in Units : FutureReady(i)
    \/ NextNone

\* One call of either strategy on any input, followed by the aggregator.
Next == Bounded \/ Streaming \/ WriteResults

Spec == Init /\ [][Next]_vars

\* write_results_to_csv called on its own with any list of TaskResults, as
\* the tests at task.rs:103-143 do (statuses Pending and Running included).
InitAggregator ==
    /\ tasks = <<>>
    /\ strategy = "direct"
    /\ stub = NoStub
    /\ prior = NoPrior
    /\ input = NoInput
    /\ calls = <<>>
    /\ enqueued = <<>>
    /\ pc = "returned"
    /\ idx = 1
    /\ unit = <<>>
    /\ tx = FALSE
    /\ rx = FALSE
    /\ queue = <<>>
    /\ results \in SeqsUpTo(TaskResult, MaxResults)
    /\ written = <<>>
    /\ output = <<>>

NextAggregator == WriteResults

SpecAggregator == InitAggregator /\ [][NextAggregator]_vars

\* Both strategies called one after the other on the same input with the
\* same deterministic stub executor: execute_tasks has returned, its list is
\* kept in `prior` and execute_tasks_streaming is entered (orchestrator.rs:45-46).
CallStreaming ==
    /\ pc = "returned"
    /\ strategy = "bounded"
    /\ prior = NoPrior
    /\ prior' = [called |-> TRUE, results |-> results]
    /\ strategy' = "streaming"
    /\ pc' = "push"
    /\ idx' = 1
    /\ unit' = [i \in Units |-> InitUnit]
    /\ results' = <<>>
    /\ calls' = [i \in Units |-> <<>>]
    /\ enqueued' = <<>>
    /\ UNCHANGED <<tasks, stub, tx, rx, queue, written, output, input>>

InitBoth ==
    /\ tasks \in SeqsUpTo(TaskIds, MaxTasks)
    /\ strategy = "bounded"
    /\ stub \in Stubs
    /\ prior = NoPrior
    /\ input = NoInput
    /\ pc = "spawn"
    /\ InitEngine

NextBoth == Bounded \/ CallStreaming \/ Streaming

SpecBoth == InitBoth /\ [][NextBoth]_vars

\* ===================================================================
\* Properties
\* ===================================================================
\* The call of the engine has returned its list.
Returned == pc \in {"returned", "written"}

\* Number of entries of a list of records with the given task_id.
CountId(rs, id) == Cardinality({j \in 1..Len(rs) : rs[j].task_id = id})

\* Number of submissions of the given task_id.
Submitted(id) == Cardinality({i \in Units : tasks[i] = id})

\* Number of entries of a list equal to v.
CountOf(rs, v) == Cardinality({j \in 1..Len(rs) : rs[j] = v})

\* The TaskResult section 4.3 asks of the wrapper for an executor outcome.
Wrapped(id, outcome) ==
    IF outcome.ok
    THEN [task_id |-> id, status |-> "Completed", error_info |-> None]
    ELSE [task_id |-> id, status |-> "Failed", error_info |-> Some(outcome.msg)]

\* C1: when execute_tasks has returned, the list holds exactly N results and
\* every task_id occurs in it as often as it was submitted (duplicates and
\* N = 0 included), whatever the interleaving of units and collector.
C1_BoundedOnePerSubmission ==
    (strategy = "bounded" /\ Returned) =>
        /\ Len(results) = N
        /\ \A id \in TaskIds : CountId(results, id) = Submitted(id)

\* C1 witness: execute_tasks has returned for three or more submissions, two
\* of them with the same task_id.
C1_Witness ==
    /\ strategy = "bounded"
    /\ pc = "returned"
    /\ N >= 3
    /\ \E i, j \in Units : i # j /\ tasks[i] = tasks[j]

\* C2: when execute_tasks_streaming has returned, the pending set is empty
\* (every member was yielded), the list holds exactly N results and every
\* task_id occurs in it as often as it was submitted.
C2_StreamingOnePerSubmission ==
    (strategy = "streaming" /\ Returned) =>
        /\ PendingSet = {}
        /\ \A i \in Units : unit[i].pc = "yielded"
        /\ Len(results) = N
        /\ \A id \in TaskIds : CountId(results, id) = Submitted(id)

\* C2 witness: execute_tasks_streaming has returned for three or more
\* submissions, two of them with the same task_id.
C2_Witness ==
    /\ strategy = "streaming"
    /\ pc = "returned"
    /\ N >= 3
    /\ \E i, j \in Units : i # j /\ tasks[i] = tasks[j]

\* C3: when either strategy has returned, whichever executor calls failed,
\* every submission was executed and the returned list is, as a multiset,
\* exactly the wrapped outcome of each submission's own executor call: a
\* failure removes or changes no sibling's result, and the list is returned.
C3_FailureIsolation ==
    (strategy \in {"bounded", "streaming"} /\ Returned) =>
        /\ \A i \in Units : Len(calls[i]) >= 1
        /\ Len(results) = N
        /\ \A i \in Units :
              LET v == Wrapped(tasks[i], calls[i][1])
              IN  CountOf(results, v) =
                     Cardinality({k \in Units : Wrapped(tasks[k], calls[k][1]) = v})

\* C3 witness: the run went through to the written report although one
\* submission failed, and a sibling of it completed.
C3_Witness ==
    /\ pc = "written"
    /\ \E i, j \in Units : /\ calls[i] # <<>> /\ ~calls[i][1].ok
                           /\ calls[j] # <<>> /\ calls[j][1].ok

\* C4: the result a unit is about to send, and each result the pending set
\* has yielded, is the wrapped outcome of that submission's executor call:
\* Completed without error_info on success, Failed with the description on
\* failure; one task 201 with a stub failing "boom" gives the row 201,Failed,boom.
C4_WrapperResult ==
    /\ \A i \in Units :
          unit[i].pc = "sending" => unit[i].result = Wrapped(tasks[i], calls[i][1])
    /\ strategy = "streaming" =>
          \A i \in Units :
             unit[i].pc = "yielded" =>
                LET v == Wrapped(tasks[i], calls[i][1])
                IN  CountOf(results, v) =
                       Cardinality({k \in Units : /\ unit[k].pc = "yielded"
                                                  /\ Wrapped(tasks[k], calls[k][1]) = v})
    /\ (stub = AlwaysBoom /\ tasks = <<201>> /\ pc = "written") =>
          output = <<Header, "201,Failed,boom">>

\* C4 witness: the report of the single task 201 under the stub failing
\* with "boom" has been written.
C4_Witness ==
    /\ stub = AlwaysBoom
    /\ tasks = <<201>>
    /\ pc = "written"
    /\ written = <<[task_id |-> 201, final_status |-> "Failed", error_info |-> "boom"]>>

\* The lines of the output after the header.
DataRows == IF output = <<>> THEN <<>> ELSE Tail(output)

\* The task_id values occurring in a list of records.
IdsOf(rs) == {rs[j].task_id : j \in 1..Len(rs)}

\* C5: for every list of TaskResults the aggregator serializes exactly one
\* record per task_id occurring in the list and none for any other, and the
\* output has that many data rows.
C5_OneRowPerTaskId ==
    pc = "written" =>
        /\ \A id \in TaskIds :
              CountId(written, id) = IF id \in IdsOf(results) THEN 1 ELSE 0
        /\ Len(written) = Cardinality(IdsOf(results))
        /\ Len(DataRows) = Cardinality(IdsOf(results))

\* C5 witness: a list with a repeated task_id and another task_id has been
\* written.
C5_Witness ==
    /\ strategy = "direct"
    /\ pc = "written"
    /\ Len(results) = 3
    /\ Cardinality(IdsOf(results)) = 2
    /\ results[1].task_id = results[3].task_id
    /\ results[1].status # results[3].status

\* j is the highest index of rs holding its task_id.
IsLast(rs, j) == \A m \in (j + 1)..Len(rs) : rs[m].task_id # rs[j].task_id

\* C6: every serialized record is the projection of the TaskResult at the
\* highest index of the list among those with its task_id.
C6_LastWriteWins ==
    pc = "written" =>
        \A j \in 1..Len(written) :
           \E k \in 1..Len(results) :
              /\ results[k].task_id = written[j].task_id
              /\ IsLast(results, k)
              /\ written[j] = TaskOutputFrom(results[k])

\* C6 witness: a list whose first entry is Completed and whose last entry,
\* with the same task_id, is Failed with a description has been written.
C6_Witness ==
    /\ strategy = "direct"
    /\ pc = "written"
    /\ Len(results) >= 2
    /\ results[1].task_id = results[Len(results)].task_id
    /\ results[1].status = "Completed"
    /\ results[Len(results)].status = "Failed"
    /\ results[Len(results)].error_info = Some("boom")

\* C7: for every surviving TaskResult, final_status is "Completed" exactly
\* when its status is Completed and "Failed" otherwise, never "Pending" or
\* "Running"; error_info is "" when the result has none and the description
\* when it has one.
C7_StatusProjection ==
    pc = "written" =>
        \A j \in 1..Len(written) :
           \E k \in 1..Len(results) :
              /\ results[k].task_id = written[j].task_id
              /\ IsLast(results, k)
              /\ (results[k].status = "Completed") <=> (written[j].final_status = "Completed")
              /\ (results[k].status # "Completed") <=> (written[j].final_status = "Failed")
              /\ written[j].final_status \notin {"Pending", "Running"}
              /\ results[k].error_info = None => written[j].error_info = ""
              /\ results[k].error_info # None => written[j].error_info = results[k].error_info[1]

\* C7 witness: a Running and a Pending TaskResult have been projected.
C7_Witness ==
    /\ strategy = "direct"
    /\ pc = "written"
    /\ Len(results) = 2
    /\ results[1].task_id # results[2].task_id
    /\ results[1].status = "Running"
    /\ results[2].status = "Pending"
    /\ results[2].error_info = None

\* The (task_id, status) pairs of a list of TaskResults.
Pairs(rs) == {<<rs[j].task_id, rs[j].status>> : j \in 1..Len(rs)}

\* C8: with a deterministic stub executor, the set of (task_id, status)
\* pairs execute_tasks returned equals the set execute_tasks_streaming
\* returns for the same input, whatever the interleavings.
C8_StrategyEquivalence ==
    (strategy = "streaming" /\ pc = "returned" /\ prior.called) =>
        Pairs(results) = Pairs(prior.results)

\* C8 witness: both strategies have returned for an input on which the stub
\* fails one task_id and not the other, in different orders.
C8_Witness ==
    /\ strategy = "streaming"
    /\ pc = "returned"
    /\ prior.called
    /\ prior.results # results
    /\ \E i, j \in Units : stub.outcome[tasks[i]].ok /\ ~stub.outcome[tasks[j]].ok

\* The terminal statuses.
Terminal == {"Completed", "Failed"}

\* C9: every TaskResult on the completion queue and every TaskResult in the
\* collected (and returned) list has status Completed or Failed.
C9_OnlyTerminalHandedOver ==
    /\ \A j \in 1..Len(queue) : queue[j].status \in Terminal
    /\ \A j \in 1..Len(results) : results[j].status \in Terminal

\* C9 witness: the queue is full and a Failed result has been collected.
C9_Witness ==
    /\ strategy = "bounded"
    /\ Len(queue) = Capacity
    /\ \E j \in 1..Len(results) : results[j].status = "Failed"

\* C10: when execute_tasks has returned, every unit it spawned has finished:
\* its executor call is done, its result is sent and its sender dropped.
C10_NoUnitOutlivesCall ==
    (strategy = "bounded" /\ Returned) =>
        \A i \in Units :
           /\ unit[i].pc = "finished"
           /\ ~HoldsSender(i)
           /\ calls[i] # <<>>

\* C10 witness: execute_tasks has returned after spawning three units.
C10_Witness ==
    /\ strategy = "bounded"
    /\ pc = "returned"
    /\ N >= 3
    /\ \A i \in Units : unit[i].pc = "finished"

\* C11: the Task Executor returns at most once for a submission and, when
\* either strategy has returned, exactly once for each (so twice for a
\* task_id submitted twice); a submission whose call failed gets no second call.
C11_NoRetries ==
    /\ \A i \in Units : Len(calls[i]) <= 1
    /\ \A i \in Units : unit[i].pc \in {"none", "spawned", "pushed", "executing"} => calls[i] = <<>>
    /\ (strategy \in {"bounded", "streaming"} /\ Returned) =>
          /\ \A i \in Units : Len(calls[i]) = 1
          /\ \A id \in TaskIds :
                Cardinality({i \in Units : tasks[i] = id /\ calls[i] # <<>>}) = Submitted(id)

\* C11 witness: a run has returned in which a task_id was submitted twice
\* and the executor failed for one of the two submissions.
C11_Witness ==
    /\ Returned
    /\ \E i, j \in Units : /\ i # j
                           /\ tasks[i] = tasks[j]
                           /\ calls[i] # <<>> /\ ~calls[i][1].ok
                           /\ calls[j] # <<>> /\ calls[j][1].ok

\* The whole program: main reads the input source, runs the strategy it
\* selects and writes the report.
InitMain ==
    /\ input \in Inputs
    /\ tasks = <<>>
    /\ strategy = "direct"
    /\ stub = NoStub
    /\ prior = NoPrior
    /\ pc = "read"
    /\ idx = 1
    /\ unit = <<>>
    /\ calls = <<>>
    /\ tx = FALSE
    /\ rx = FALSE
    /\ queue = <<>>
    /\ results = <<>>
    /\ written = <<>>
    /\ output = <<>>
    /\ enqueued = <<>>

NextMain == ReadFails \/ ReadAndDispatch \/ Bounded \/ Streaming \/ WriteResults

SpecMain == InitMain /\ [][NextMain]_vars

\* A data row that deserializes into a TaskInput.
WellFormed(row) == Len(row) = 2 /\ row[1] \in {"101", "201"}

\* The input source cannot be read or holds a malformed row.
InputError ==
    \/ input.kind = "unreadable"
    \/ \E j \in 1..Len(input.rows) : ~WellFormed(input.rows[j])

\* C12: when the input cannot be read or holds a malformed row (also after
\* well-formed rows), main ends with the error: no task is ever handed to
\* the engine, the executor is invoked for none and no output is produced.
C12_InputErrorIsFatal ==
    InputError =>
        /\ pc \in {"read", "failed"}
        /\ tasks = <<>>
        /\ unit = <<>>
        /\ calls = <<>>
        /\ results = <<>>
        /\ written = <<>>
        /\ output = <<>>

\* C12 witness: main has ended with the error on a file whose first row is
\* well-formed and whose last row is malformed.
C12_Witness ==
    /\ pc = "failed"
    /\ input.kind = "file"
    /\ Len(input.rows) >= 2
    /\ WellFormed(input.rows[1])
    /\ ~WellFormed(input.rows[Len(input.rows)])

\* C13 as claimed: for an input with the header and zero data rows the engine
\* returns the empty list and the output is the header row alone.
C13_EmptyInputHeaderOnly ==
    (input.kind = "file" /\ input.rows = <<>> /\ pc = "written") =>
        /\ results = <<>>
        /\ output = <<Header>>

\* C14: the collection loop of execute_tasks has ended only in states where
\* the original sender is dropped, the queue is empty and every spawned unit
\* has made its executor call, sent its result and dropped its sender.
C14_CollectorExhaustion ==
    (strategy = "bounded" /\ pc \in {"join", "returned", "written"}) =>
        /\ ~tx
        /\ queue = <<>>
        /\ \A i \in Units : /\ unit[i].pc \in {"dropped", "finished"}
                            /\ calls[i] # <<>>
        /\ Len(enqueued) = N
        /\ results = enqueued

\* C14 witness: the loop has just ended for three units, one of which has
\* dropped its sender and is not finished yet.
C14_Witness ==
    /\ strategy = "bounded"
    /\ pc = "join"
    /\ idx = 1
    /\ N >= 3
    /\ \E i \in Units : unit[i].pc = "dropped"

\* execute_tasks alone, under the scheduling of the runtime: the calling task
\* and every spawned unit are run again whenever they stay ready, and every
\* executor call that was started returns.
InitLive ==
    /\ tasks \in SeqsUpTo(TaskIds, MaxTasks)
    /\ strategy = "bounded"
    /\ stub = NoStub
    /\ prior = NoPrior
    /\ input = NoInput
    /\ pc = "spawn"
    /\ InitEngine

\* The steps of the calling task of execute_tasks.
CallerSteps == Spawn \/ DropTx \/ Recv \/ RecvNone \/ Join \/ Return

\* The steps of the i-th spawned unit.
UnitSteps(i) ==
    /\ i \in Units
    /\ \/ UnitStart(i)
       \/ UnitExecuted(i)
       \/ UnitSend(i)
       \/ UnitDropSender(i)
       \/ UnitFinish(i)

NextLive == Bounded

FairLive == WF_vars(CallerSteps) /\ \A i \in 1..MaxTasks : WF_vars(UnitSteps(i))

SpecLive == InitLive /\ [][NextLive]_vars /\ FairLive

\* The i-th unit waits in send for a slot of the full queue.
Blocked(i) == i \in Units /\ unit[i].pc = "sending" /\ Len(queue) = Capacity

\* C15: with fair scheduling and returning executor calls execute_tasks
\* returns for every input, also with more tasks than queue slots; a
\* producer waiting on a full queue gets to send, and the queue never holds
\* more than its capacity.
C15_BoundedTerminates ==
    /\ [](Len(queue) <= Capacity)
    /\ <>(pc = "returned")
    /\ \A i \in 1..MaxTasks : Blocked(i) ~> (i \in Units /\ unit[i].pc = "sent")

\* C15 witness: a producer waits in send on a full queue.
C15_Witness == \E i \in Units : Blocked(i)

\* C16: in execute_tasks the collected list followed by the queue is at every
\* moment the sequence of results in the order they were enqueued, and the
\* returned list is exactly that sequence; (by the witness) an order other
\* than the submission order is reached.
C16_ArrivalOrder ==
    strategy = "bounded" =>
        /\ enqueued = results \o queue
        /\ Returned => results = enqueued

\* C16 witness: execute_tasks has returned a list whose task_ids are not in
\* the order of the input.
C16_Witness ==
    /\ strategy = "bounded"
    /\ pc = "returned"
    /\ N >= 2
    /\ Len(results) = N
    /\ \E j \in Units : results[j].task_id # tasks[j]

\* s is a prefix of t.
IsPrefix(s, t) == Len(s) <= Len(t) /\ \A j \in 1..Len(s) : t[j] = s[j]

\* The results handed over so far: the collected ones, then the queued ones.
HandedOver == results \o queue

\* C17 as claimed: no field of a TaskResult changes after it is created.
C17_NeverMutated ==
    [][\A i \in Units :
          (unit[i].result # Moved /\ unit'[i].result # Moved) =>
              unit'[i].result = unit[i].result]_vars

\* C17 amended: a TaskResult is created once per submission, on the first
\* poll of its unit, as (task_id, Running, no error_info); its task_id never
\* changes; once the match has set its terminal status no field of it
\* changes, in the unit, on the queue or in the collected list.
C17_FixedOnceSettled ==
    [][/\ \A i \in Units :
            /\ (unit[i].result = Moved /\ unit'[i].result # Moved) =>
                  /\ unit[i].pc \in {"spawned", "pushed"}
                  /\ unit'[i].pc = "executing"
                  /\ unit'[i].result = [task_id |-> tasks[i], status |-> "Running",
                                        error_info |-> None]
            /\ unit[i].pc \notin {"none", "spawned", "pushed"} =>
                  unit'[i].pc \notin {"none", "spawned", "pushed"}
            /\ (unit[i].result # Moved /\ unit'[i].result # Moved) =>
                  /\ unit'[i].result.task_id = unit[i].result.task_id
                  /\ unit[i].result.status \in Terminal => unit'[i].result = unit[i].result
       /\ IsPrefix(HandedOver, HandedOver')]_vars

\* C17 witness: a unit holds a settled Failed result while another result is
\* on the queue and a third is collected.
C17_Witness ==
    /\ strategy = "bounded"
    /\ \E i \in Units : unit[i].pc = "sending" /\ unit[i].result.status = "Failed"
    /\ queue # <<>>
    /\ results # <<>>

\* The status of the result the i-th unit holds in u ("none": it holds none).
StatusIn(u, i) == IF u[i].result = Moved THEN "none" ELSE u[i].result.status

\* The result of the i-th unit leaves the unit as it is: sent by the unit
\* (bounded) or yielded to the collector in terminal status (streaming).
LeavesUnit(i) ==
    \/ /\ StatusIn(unit, i) \in Terminal
       /\ unit'[i].pc = "sent"
    \/ /\ strategy = "streaming"
       /\ StatusIn(unit, i) = "Running"
       /\ results' = Append(results, results'[Len(results')])
       /\ results'[Len(results')].task_id = tasks[i]
       /\ results'[Len(results')].status \in Terminal

\* The statuses of the results handed over stay as they are.
HandedStatusesKept ==
    /\ Len(HandedOver') >= Len(HandedOver)
    /\ \A j \in 1..Len(HandedOver) : HandedOver'[j].status = HandedOver[j].status

\* C18 as claimed: the status of a task moves Pending, Running, then
\* Completed or Failed, with Pending before Running and no other transition.
C18_PendingRunningTerminal ==
    [][/\ \A i \in Units :
            \/ StatusIn(unit', i) = StatusIn(unit, i)
            \/ StatusIn(unit, i) = "none" /\ StatusIn(unit', i) = "Pending"
            \/ StatusIn(unit, i) = "Pending" /\ StatusIn(unit', i) = "Running"
            \/ StatusIn(unit, i) = "Running" /\ StatusIn(unit', i) \in Terminal
            \/ StatusIn(unit', i) = "none" /\ LeavesUnit(i)
       /\ HandedStatusesKept]_vars

\* C18 amended: the status of a task starts at Running when its unit is first
\* polled (no result is ever in status Pending), moves to exactly one of
\* Completed or Failed, and never changes after that; there is no other
\* transition.
C18_RunningThenTerminal ==
    [][/\ \A i \in Units :
            /\ StatusIn(unit, i) # "Pending"
            /\ StatusIn(unit', i) # "Pending"
            /\ \/ StatusIn(unit', i) = StatusIn(unit, i)
               \/ /\ StatusIn(unit, i) = "none"
                  /\ StatusIn(unit', i) = "Running"
                  /\ unit[i].pc \in {"spawned", "pushed"}
               \/ StatusIn(unit, i) = "Running" /\ StatusIn(unit', i) \in Terminal
               \/ StatusIn(unit', i) = "none" /\ LeavesUnit(i)
       /\ HandedStatusesKept]_vars

\* C18 witness: one unit is Running, another holds a Completed result and a
\* third result has been handed over.
C18_Witness ==
    /\ \E i, k \in Units : /\ StatusIn(unit, i) = "Running"
                           /\ StatusIn(unit, k) = "Completed"
    /\ HandedOver # <<>>

\* C19: in execute_tasks the receiver is alive as long as the original
\* sender or a unit's clone is, so no send finds the channel closed: every
\* unit that is past its send has its result enqueued, nothing enqueued is
\* lost or doubled between queue and list, and the returned list holds each
\* enqueued result exactly once.
C19_NoResultDiscarded ==
    strategy = "bounded" =>
        /\ tx => rx
        /\ \A i \in Units : unit[i].pc \in {"spawned", "executing", "sending", "sent"} => rx
        /\ Cardinality({i \in Units : unit[i].pc \in {"sent", "dropped", "finished"}})
              = Len(enqueued)
        /\ Len(results) + Len(queue) = Len(enqueued)
        /\ \A j \in 1..Len(enqueued) :
              CountOf(HandedOver, enqueued[j]) = CountOf(enqueued, enqueued[j])
        /\ Returned =>
              /\ Len(results) = N
              /\ \A j \in 1..Len(enqueued) :
                    CountOf(results, enqueued[j]) = CountOf(enqueued, enqueued[j])

\* C19 witness: execute_tasks has returned every result of an input with
\* more tasks than the queue has slots.
C19_Witness ==
    /\ strategy = "bounded"
    /\ pc = "returned"
    /\ N > Capacity
    /\ Len(results) = N
    /\ ~rx

\* The error_info text of the row projected from a TaskResult.
InfoText(r) == IF r.error_info = None THEN "" ELSE r.error_info[1]

\* C20: in a whole run every row of the report is the projection of one
\* single returned TaskResult (its task_id, its status, its error_info); a
\* Completed row has empty error_info and a Failed row has the description,
\* also when a task_id was submitted several times with different outcomes.
C20_RowFromOneResult ==
    (strategy \in {"bounded", "streaming"} /\ pc = "written") =>
        \A j \in 1..Len(written) :
           /\ \E k \in 1..Len(results) :
                 /\ written[j].task_id = results[k].task_id
                 /\ written[j].final_status = results[k].status
                 /\ written[j].error_info = InfoText(results[k])
           /\ written[j].final_status = "Completed" => written[j].error_info = ""
           /\ written[j].final_status = "Failed" => written[j].error_info \in ErrorDescriptions

\* C20 witness: a task_id was submitted twice, one execution failed and was
\* collected first, the other completed, and the row written is Completed.
C20_Witness ==
    /\ pc = "written"
    /\ \E a, b \in 1..Len(results) :
          /\ a < b
          /\ results[a].task_id = results[b].task_id
          /\ results[a].status = "Failed"
          /\ results[b].status = "Completed"
          /\ \A m \in (b + 1)..Len(results) : results[m].task_id # results[b].task_id
    /\ \E j \in 1..Len(written) : written[j].final_status = "Completed"

====
